---- MODULE Spec2Model ----
(***************************************************************************)
(* Calctra resource matching: the Anchor program                           *)
(* src/app/solana-contracts/resource_matching.rs as a state machine, and   *)
(* the native program src/contracts/src/resource_matching.rs as a second   *)
(* one (SpecNative) over accounts of its own, and the token program       *)
(* src/contracts/src/token_contract.rs as a third (SpecToken).             *)
(*                                                                         *)
(* The state is the set of accounts the program owns: SystemState          *)
(* accounts, ResourceAccount accounts and ComputationRequest accounts.     *)
(* Each instruction is one atomic step: the runtime runs a transaction     *)
(* that write-locks an account alone on that account, and it discards      *)
(* every account change of an instruction that returns an error or         *)
(* panics.  An instruction names the accounts it works on; the program     *)
(* checks of an account only what its Accounts struct states (the account  *)
(* type, and for `init` that the account is new).                          *)
(***************************************************************************)
EXTENDS Integers, FiniteSets, Sequences, TLC

VARIABLES
    sys,              \* SystemState accounts: account address -> SystemState
    res,              \* ResourceAccount accounts: address -> ResourceAccount
    req,              \* ComputationRequest accounts: address -> ComputationRequest
    overflow_checks,  \* the build's integer-overflow mode (panic or wrap)
    last,             \* the last instruction executed and its Result
    native_res,       \* native program: resource account address -> account
    native_req,       \* native program: request account address -> account
    token_mint,       \* token program: mint account address -> account
    selection         \* candidate selection: a request, a pool, the result

vars == <<sys, res, req, overflow_checks, last, native_res, native_req, token_mint,
          selection>>
anchor_vars == <<sys, res, req, overflow_checks>>
native_vars == <<native_res, native_req, token_mint, selection>>

(***************************************************************************)
(* Bounds of the model.                                                    *)
(***************************************************************************)
MaxSys == 2        \* SystemState accounts that can be created
MaxRes == 2        \* ResourceAccount accounts that can be created
MaxReq == 2        \* ComputationRequest accounts that can be created
MaxAccounts == 4   \* accounts the payers can fund in total
ScaledU64Max == 5  \* u64::MAX, scaled down: u64 values are 0..ScaledU64Max
ScaledI64Max == 1  \* i64::MAX, scaled down: i64 values are -(ScaledI64Max+1)..ScaledI64Max
MaxSatReq == 3     \* requests of the runs on one resource (SpecSaturation)
MaxNativeRes == 2  \* native program: resource accounts assigned to the program
MaxNativeReq == 2  \* native program: request accounts assigned to the program
MaxMint == 3       \* token program: mint accounts assigned to the program
MaxPool == 3       \* candidate selection: resources in the pool

SysAddr == 1..MaxSys
ResAddr == 1..MaxRes
ReqAddr == 1..MaxReq

\* Signers of the transactions, by the instruction they sign.
Pubkey == {"alice", "bob", "carol"}
Authorities == {"alice", "carol"}        \* sign initialize
Providers == {"bob", "carol"}          \* sign register_resource
Requesters == {"carol"}                 \* sign submit_computation_request

\* Arguments of register_resource: <<computation_power, available_memory,
\* price_per_unit>>, and of submit_computation_request: <<required_power,
\* required_memory, max_price_per_unit>>.  Against the request <<2, 2, 1>>
\* the resources are: fit, short of power, short of memory, too dear, and
\* failing all three.
ResourceArgs == {<<2, 2, 1>>, <<1, 2, 1>>, <<2, 1, 1>>, <<2, 2, 2>>, <<1, 1, 2>>}
RequestArgs == {<<2, 2, 1>>}
DurationArgs == {1, ScaledU64Max}
ResourceIdArgs == 0..(MaxRes - 1)

U64_MAX == ScaledU64Max
I64_MAX == ScaledI64Max
I64_MIN == -ScaledI64Max - 1

\* Option<u64>
None == << >>
Some(x) == <<x>>

\* RequestStatus
RequestStatus == {"Pending", "Matched", "Completed", "Failed", "Cancelled"}

\* The address an `init` account constraint accepts: one that holds no
\* account yet.  New addresses are taken in order.
NewAddr(used, all) ==
    IF all \ used = {} \/ Cardinality(DOMAIN sys) + Cardinality(DOMAIN res)
                             + Cardinality(DOMAIN req) >= MaxAccounts
    THEN {}
    ELSE {CHOOSE a \in all \ used : \A b \in all \ used : a <= b}

(***************************************************************************)
(* Integer arithmetic of the build.  `+=` and `-=` on u64 panic on         *)
(* overflow when the build checks overflow, and wrap otherwise.            *)
(* An outcome is [ok, v]: ok = FALSE is the panic.                         *)
(***************************************************************************)
AddU64(a, b) ==
    IF a + b <= U64_MAX THEN [ok |-> TRUE, v |-> a + b]
    ELSE IF overflow_checks THEN [ok |-> FALSE, v |-> a]
    ELSE [ok |-> TRUE, v |-> (a + b) % (U64_MAX + 1)]

SubU64(a, b) ==
    IF a - b >= 0 THEN [ok |-> TRUE, v |-> a - b]
    ELSE IF overflow_checks THEN [ok |-> FALSE, v |-> a]
    ELSE [ok |-> TRUE, v |-> (a - b) % (U64_MAX + 1)]

\* i64::saturating_add / saturating_sub
saturating_add(x, y) == IF x + y > I64_MAX THEN I64_MAX ELSE x + y
\* Mutant: i64 subtraction that wraps around.
wrapping_sub(x, y) == IF x - y < I64_MIN THEN I64_MAX ELSE x - y
saturating_sub(x, y) == IF x - y < I64_MIN THEN I64_MIN ELSE x - y

Result(op, r) == [op |-> op, result |-> r]

(***************************************************************************)
(* The native program, src/contracts/src/resource_matching.rs.  Its        *)
(* accounts are created outside the program; an account is owned by the    *)
(* program or by another one, and holds no data (None) until an            *)
(* instruction packs a record into it.                                     *)
(***************************************************************************)
\* Account 0 of each kind is owned by another program.
NativeResAddr == 0..MaxNativeRes
NativeReqAddr == 0..MaxNativeReq
NativeAccount(a) == [owner |-> IF a = 0 THEN "other_program" ELSE "program_id",
                     data |-> None]

\* The ResourceData a caller passes to RegisterResource: a plain one, one
\* with a reputation of its own choice, one not available.
ResourceData == [is_initialized |-> FALSE, provider |-> "alice", cpu_cores |-> 2,
                 memory_gb |-> 2, storage_gb |-> 1, gpu_type |-> 0,
                 gpu_memory_gb |-> 0, price_per_hour |-> 1, availability |-> TRUE,
                 reputation_score |-> 0, location_code |-> 0]
NativeResourceArgs == {ResourceData,
                       [ResourceData EXCEPT !.reputation_score = 1],
                       [ResourceData EXCEPT !.availability = FALSE]}

\* The request data a caller passes to SubmitRequest, by min_reputation.
ComputationRequest(min_reputation) ==
    [is_initialized |-> FALSE, requester |-> "alice", min_cpu_cores |-> 2,
     min_memory_gb |-> 2, min_storage_gb |-> 1, needs_gpu |-> FALSE,
     min_gpu_memory_gb |-> 0, max_price_per_hour |-> 1, preferred_location |-> 0,
     min_reputation |-> min_reputation, status |-> "Pending",
     matched_provider |-> None]
NativeRequestArgs == {ComputationRequest(0), ComputationRequest(1)}

(***************************************************************************)
(* The token program, src/contracts/src/token_contract.rs.  Mint account 0 *)
(* is owned by another program.                                            *)
(***************************************************************************)
MintAddr == 0..MaxMint
INITIAL_SUPPLY == 1000000000
DECIMALS == 9

\* The accounts of an instruction, in the order InitializeMint reads them:
\* the mint account, the mint authority, the rent sysvar; a caller may
\* pass fewer.
TokenAccounts == {SubSeq(<<a, k, "SysvarRent">>, 1, n) :
                    a \in MintAddr, k \in Pubkey, n \in 0..3}

\* Instruction data: none, the tag of InitializeMint, an unknown tag.  The
\* handlers of the tags 1 (MintTo) and 2 (Transfer) are not in the source.
TokenInstructionData == {<< >>, <<0>>, <<3>>}

(***************************************************************************)
(* Candidate selection.  The source has the matching algorithm only as a   *)
(* comment (src/contracts/src/resource_matching.rs:155-164); this is the   *)
(* selectBestCandidate of the specification over the two-field resources,  *)
(* computed as a scan of the pool that keeps the best candidate so far.    *)
(***************************************************************************)
\* Resources of a pool, less their id: a fit one in the US, one of the
\* same price and a higher reputation in the EU, a cheaper one with no
\* reputation, an inactive one, one short of power, one too dear.
PoolResourceArgs ==
    {[is_active |-> TRUE, computation_power |-> 2, available_memory |-> 2,
      price_per_unit |-> 5, reputation_score |-> 2, location |-> "US"],
     [is_active |-> TRUE, computation_power |-> 2, available_memory |-> 2,
      price_per_unit |-> 5, reputation_score |-> 5, location |-> "EU"],
     [is_active |-> TRUE, computation_power |-> 2, available_memory |-> 2,
      price_per_unit |-> 4, reputation_score |-> 0, location |-> "EU"],
     [is_active |-> FALSE, computation_power |-> 2, available_memory |-> 2,
      price_per_unit |-> 1, reputation_score |-> 5, location |-> "US"],
     [is_active |-> TRUE, computation_power |-> 1, available_memory |-> 2,
      price_per_unit |-> 1, reputation_score |-> 5, location |-> "US"],
     [is_active |-> TRUE, computation_power |-> 2, available_memory |-> 2,
      price_per_unit |-> 9, reputation_score |-> 5, location |-> "US"]}

PoolResource(id, args) ==
    [id |-> id, is_active |-> args.is_active,
     computation_power |-> args.computation_power,
     available_memory |-> args.available_memory,
     price_per_unit |-> args.price_per_unit,
     reputation_score |-> args.reputation_score, location |-> args.location]

\* Pools: up to MaxPool resources with distinct ids, in any order.
SelectPools ==
    UNION {{p \in [1..n -> {PoolResource(id, args) : id \in 1..MaxPool,
                                                    args \in PoolResourceArgs}] :
              \A i \in 1..n, j \in 1..n : i # j => p[i].id # p[j].id}
           : n \in 0..MaxPool}

SelectRequests ==
    {[required_power |-> 2, required_memory |-> 2, max_price_per_unit |-> 5,
      preferred_location |-> l, min_reputation |-> m] :
        l \in {None, Some("US")}, m \in {0, 1}}

NoSelection == [request |-> None, pool |-> << >>, called |-> FALSE, result |-> None]

qualifies(request, resource) ==
    /\ resource.is_active
    /\ resource.computation_power >= request.required_power
    /\ resource.available_memory >= request.required_memory
    /\ resource.price_per_unit <= request.max_price_per_unit
    /\ resource.reputation_score >= request.min_reputation

in_preferred_location(request, resource) ==
    /\ request.preferred_location # None
    /\ request.preferred_location = Some(resource.location)

\* Mutant: ranking without the reputation tie-break.
ranks_before_no_reputation(request, a, b) ==
    IF in_preferred_location(request, a) # in_preferred_location(request, b)
    THEN in_preferred_location(request, a)
    ELSE IF a.price_per_unit # b.price_per_unit
    THEN a.price_per_unit < b.price_per_unit
    ELSE a.id < b.id

\* a comes before b in the ranking.
ranks_before(request, a, b) ==
    IF in_preferred_location(request, a) # in_preferred_location(request, b)
    THEN in_preferred_location(request, a)
    ELSE IF a.price_per_unit # b.price_per_unit
    THEN a.price_per_unit < b.price_per_unit
    ELSE IF a.reputation_score # b.reputation_score
    THEN a.reputation_score > b.reputation_score
    ELSE a.id < b.id

RECURSIVE scan(_, _, _, _)
scan(request, pool, i, best) ==
    IF i > Len(pool) THEN best
    ELSE IF qualifies(request, pool[i])
              /\ (best = None \/ ranks_before(request, pool[i], best[1]))
    THEN scan(request, pool, i + 1, Some(pool[i]))
    ELSE scan(request, pool, i + 1, best)

selectBestCandidate(request, resourcePool) ==
    LET best == scan(request, resourcePool, 1, None)
    IN  IF best = None THEN None ELSE Some(best[1].id)

(***************************************************************************)
(* Init: the programs are deployed; the Anchor program owns no account,    *)
(* the accounts of the native program hold no data.                        *)
(***************************************************************************)
Init ==
    /\ sys = << >>
    /\ res = << >>
    /\ req = << >>
    /\ overflow_checks \in BOOLEAN
    /\ last = Result("none", "Ok")
    /\ native_res = [a \in NativeResAddr |-> NativeAccount(a)]
    /\ native_req = [a \in NativeReqAddr |-> NativeAccount(a)]
    /\ token_mint = [a \in MintAddr |-> NativeAccount(a)]
    /\ selection = NoSelection

(***************************************************************************)
(* initialize                                                              *)
(***************************************************************************)
initialize(a, authority) ==
    /\ UNCHANGED <<res, req, overflow_checks>>
    /\ IF a \in DOMAIN sys
       THEN \* #[account(init)]: the account exists already
            /\ UNCHANGED sys
            /\ last' = Result("initialize", "AccountAlreadyInUse")
       ELSE /\ sys' = sys @@ (a :> [authority |-> authority,
                                    resource_count |-> 0,
                                    computation_request_count |-> 0,
                                    active_matches |-> 0])
            /\ last' = Result("initialize", "Ok")

(***************************************************************************)
(* register_resource                                                       *)
(***************************************************************************)
\* Mutant: register_resource creating the resource inactive.
register_resource_inactive(s, a, provider, computation_power, available_memory, price_per_unit) ==
    LET system_state == sys[s]
        count == AddU64(system_state.resource_count, 1)
    IN
    /\ UNCHANGED <<req, overflow_checks>>
    /\ IF ~count.ok
       THEN /\ UNCHANGED <<sys, res>>
            /\ last' = Result("register_resource", "Panic")
       ELSE /\ res' = res @@ (a :> [resource_id |-> system_state.resource_count,
                                    provider |-> provider,
                                    computation_power |-> computation_power,
                                    available_memory |-> available_memory,
                                    price_per_unit |-> price_per_unit,
                                    is_active |-> FALSE,
                                    reputation_score |-> 0,
                                    total_usage_time |-> 0])
            /\ sys' = [sys EXCEPT ![s].resource_count = count.v]
            /\ last' = Result("register_resource", "Ok")

register_resource(s, a, provider, computation_power, available_memory, price_per_unit) ==
    LET system_state == sys[s]
        count == AddU64(system_state.resource_count, 1)
    IN
    /\ UNCHANGED <<req, overflow_checks>>
    /\ IF ~count.ok
       THEN /\ UNCHANGED <<sys, res>>
            /\ last' = Result("register_resource", "Panic")
       ELSE /\ res' = res @@ (a :> [resource_id |-> system_state.resource_count,
                                    provider |-> provider,
                                    computation_power |-> computation_power,
                                    available_memory |-> available_memory,
                                    price_per_unit |-> price_per_unit,
                                    is_active |-> TRUE,
                                    reputation_score |-> 0,
                                    total_usage_time |-> 0])
            /\ sys' = [sys EXCEPT ![s].resource_count = count.v]
            /\ last' = Result("register_resource", "Ok")

(***************************************************************************)
(* submit_computation_request                                              *)
(***************************************************************************)
submit_computation_request(s, a, requester, required_power, required_memory, max_price_per_unit) ==
    LET system_state == sys[s]
        count == AddU64(system_state.computation_request_count, 1)
    IN
    /\ UNCHANGED <<res, overflow_checks>>
    /\ IF ~count.ok
       THEN /\ UNCHANGED <<sys, req>>
            /\ last' = Result("submit_computation_request", "Panic")
       ELSE /\ req' = req @@ (a :> [request_id |-> system_state.computation_request_count,
                                    requester |-> requester,
                                    required_power |-> required_power,
                                    required_memory |-> required_memory,
                                    max_price_per_unit |-> max_price_per_unit,
                                    status |-> "Pending",
                                    matched_resource |-> None])
            /\ sys' = [sys EXCEPT ![s].computation_request_count = count.v]
            /\ last' = Result("submit_computation_request", "Ok")

(***************************************************************************)
(* match_resource                                                          *)
(***************************************************************************)
\* Mutant: match_resource without the check that the request is Pending.
match_resource_require_no_pending(system_state, request_account, resource_account, matcher) ==
    IF ~(matcher = system_state.authority \/ matcher = resource_account.provider)
    THEN "UnauthorizedMatcher"
    ELSE IF ~resource_account.is_active
    THEN "ResourceNotActive"
    ELSE IF ~(resource_account.computation_power >= request_account.required_power)
    THEN "InsufficientComputationPower"
    ELSE IF ~(resource_account.available_memory >= request_account.required_memory)
    THEN "InsufficientMemory"
    ELSE IF ~(resource_account.price_per_unit <= request_account.max_price_per_unit)
    THEN "PriceTooHigh"
    ELSE "Ok"

\* Mutant: match_resource that asks for the matcher to be the authority and
\* the provider at once (&& for ||).
match_resource_require_and(system_state, request_account, resource_account, matcher) ==
    IF ~(matcher = system_state.authority /\ matcher = resource_account.provider)
    THEN "UnauthorizedMatcher"
    ELSE IF ~(request_account.status = "Pending")
    THEN "RequestNotPending"
    ELSE IF ~resource_account.is_active
    THEN "ResourceNotActive"
    ELSE IF ~(resource_account.computation_power >= request_account.required_power)
    THEN "InsufficientComputationPower"
    ELSE IF ~(resource_account.available_memory >= request_account.required_memory)
    THEN "InsufficientMemory"
    ELSE IF ~(resource_account.price_per_unit <= request_account.max_price_per_unit)
    THEN "PriceTooHigh"
    ELSE "Ok"

\* The require! checks of match_resource, in the order of the code: the
\* error of the first one that fails, or "Ok".
\* Mutant: match_resource with the memory check before the power check.
match_resource_require_memory_first(system_state, request_account, resource_account, matcher) ==
    IF ~(matcher = system_state.authority \/ matcher = resource_account.provider)
    THEN "UnauthorizedMatcher"
    ELSE IF ~(request_account.status = "Pending")
    THEN "RequestNotPending"
    ELSE IF ~resource_account.is_active
    THEN "ResourceNotActive"
    ELSE IF ~(resource_account.available_memory >= request_account.required_memory)
    THEN "InsufficientMemory"
    ELSE IF ~(resource_account.computation_power >= request_account.required_power)
    THEN "InsufficientComputationPower"
    ELSE IF ~(resource_account.price_per_unit <= request_account.max_price_per_unit)
    THEN "PriceTooHigh"
    ELSE "Ok"

match_resource_require(system_state, request_account, resource_account, matcher) ==
    IF ~(matcher = system_state.authority \/ matcher = resource_account.provider)
    THEN "UnauthorizedMatcher"
    ELSE IF ~(request_account.status = "Pending")
    THEN "RequestNotPending"
    ELSE IF ~resource_account.is_active
    THEN "ResourceNotActive"
    ELSE IF ~(resource_account.computation_power >= request_account.required_power)
    THEN "InsufficientComputationPower"
    ELSE IF ~(resource_account.available_memory >= request_account.required_memory)
    THEN "InsufficientMemory"
    ELSE IF ~(resource_account.price_per_unit <= request_account.max_price_per_unit)
    THEN "PriceTooHigh"
    ELSE "Ok"

\* Mutant: a match that also rewrites the request's price ceiling with the
\* resource's price.
match_resource_write_price(request_account, resource_account, resource_id) ==
    [request_account EXCEPT !.status = "Matched",
                            !.matched_resource = Some(resource_id),
                            !.max_price_per_unit = resource_account.price_per_unit + 1]

\* What a match writes into the request account.
match_resource_write(request_account, resource_account, resource_id) ==
    [request_account EXCEPT !.status = "Matched",
                            !.matched_resource = Some(resource_id)]

match_resource(s, q, r, matcher, resource_id) ==
    LET system_state == sys[s]
        request_account == req[q]
        resource_account == res[r]
        err == match_resource_require(system_state, request_account, resource_account, matcher)
        count == AddU64(system_state.active_matches, 1)
    IN
    /\ UNCHANGED <<res, overflow_checks>>
    /\ IF err # "Ok"
       THEN /\ UNCHANGED <<sys, req>>
            /\ last' = Result("match_resource", err)
       ELSE IF ~count.ok
       THEN /\ UNCHANGED <<sys, req>>
            /\ last' = Result("match_resource", "Panic")
       ELSE /\ req' = [req EXCEPT ![q] =
                          match_resource_write(request_account, resource_account, resource_id)]
            /\ sys' = [sys EXCEPT ![s].active_matches = count.v]
            /\ last' = Result("match_resource", "Ok")

(***************************************************************************)
(* complete_computation                                                    *)
(***************************************************************************)
\* Mutant: complete_computation without the check of the matched resource.
complete_computation_require_no_mismatch(system_state, request_account, resource_account, authority) ==
    IF ~(\/ authority = request_account.requester
         \/ authority = resource_account.provider
         \/ authority = system_state.authority)
    THEN "UnauthorizedCompletion"
    ELSE IF ~(request_account.status = "Matched")
    THEN "RequestNotMatched"
    ELSE "Ok"

\* Mutant: complete_computation without the check that the request is Matched.
complete_computation_require_no_status(system_state, request_account, resource_account, authority) ==
    IF ~(\/ authority = request_account.requester
         \/ authority = resource_account.provider
         \/ authority = system_state.authority)
    THEN "UnauthorizedCompletion"
    ELSE IF ~(request_account.matched_resource = Some(resource_account.resource_id))
    THEN "ResourceMismatch"
    ELSE "Ok"

\* The require! checks of complete_computation, in the order of the code:
\* the error of the first one that fails, or "Ok".
\* Mutant: complete_computation with a separate error for a request that is
\* past Matched.
complete_computation_require_invalid_transition(system_state, request_account, resource_account, authority) ==
    IF ~(authority = request_account.requester
           \/ authority = resource_account.provider
           \/ authority = system_state.authority)
    THEN "UnauthorizedCompletion"
    ELSE IF request_account.status \in {"Completed", "Failed", "Cancelled"}
    THEN "InvalidStateTransition"
    ELSE IF ~(request_account.status = "Matched")
    THEN "RequestNotMatched"
    ELSE IF ~(request_account.matched_resource = Some(resource_account.resource_id))
    THEN "ResourceMismatch"
    ELSE "Ok"

complete_computation_require(system_state, request_account, resource_account, authority) ==
    IF ~(\/ authority = request_account.requester
         \/ authority = resource_account.provider
         \/ authority = system_state.authority)
    THEN "UnauthorizedCompletion"
    ELSE IF ~(request_account.status = "Matched")
    THEN "RequestNotMatched"
    ELSE IF ~(request_account.matched_resource = Some(resource_account.resource_id))
    THEN "ResourceMismatch"
    ELSE "Ok"

\* Mutant: complete_computation that adds the usage time before its checks
\* and keeps it when a check fails.
complete_computation_usage_first(s, q, r, authority, actual_duration, success) ==
    LET system_state == sys[s]
        request_account == req[q]
        resource_account == res[r]
        err == complete_computation_require(system_state, request_account, resource_account, authority)
        usage == AddU64(resource_account.total_usage_time, actual_duration)
        count == SubU64(system_state.active_matches, 1)
    IN
    /\ UNCHANGED overflow_checks
    /\ IF err # "Ok"
       THEN /\ UNCHANGED <<sys, req>>
            /\ res' = [res EXCEPT ![r].total_usage_time = usage.v]
            /\ last' = Result("complete_computation", err)
       ELSE IF ~usage.ok \/ ~count.ok
       THEN /\ UNCHANGED <<sys, res, req>>
            /\ last' = Result("complete_computation", "Panic")
       ELSE /\ res' = [res EXCEPT
                          ![r].total_usage_time = usage.v,
                          ![r].reputation_score =
                              IF success
                              THEN saturating_add(resource_account.reputation_score, 1)
                              ELSE saturating_sub(resource_account.reputation_score, 1)]
            /\ req' = [req EXCEPT ![q].status = IF success THEN "Completed" ELSE "Failed"]
            /\ sys' = [sys EXCEPT ![s].active_matches = count.v]
            /\ last' = Result("complete_computation", "Ok")

\* Mutant: complete_computation that updates the resource and the gauge and
\* leaves the request Matched.
complete_computation_ledger_only(s, q, r, authority, actual_duration, success) ==
    LET system_state == sys[s]
        request_account == req[q]
        resource_account == res[r]
        err == complete_computation_require(system_state, request_account, resource_account, authority)
        usage == AddU64(resource_account.total_usage_time, actual_duration)
        count == SubU64(system_state.active_matches, 1)
    IN
    /\ UNCHANGED overflow_checks
    /\ IF err # "Ok"
       THEN /\ UNCHANGED <<sys, res, req>>
            /\ last' = Result("complete_computation", err)
       ELSE IF ~usage.ok \/ ~count.ok
       THEN /\ UNCHANGED <<sys, res, req>>
            /\ last' = Result("complete_computation", "Panic")
       ELSE /\ res' = [res EXCEPT
                          ![r].total_usage_time = usage.v,
                          ![r].reputation_score =
                              IF success
                              THEN saturating_add(resource_account.reputation_score, 1)
                              ELSE saturating_sub(resource_account.reputation_score, 1)]
            /\ UNCHANGED req
            /\ sys' = [sys EXCEPT ![s].active_matches = count.v]
            /\ last' = Result("complete_computation", "Ok")

\* Mutant: complete_computation that records a failure as Cancelled.
complete_computation_cancels(s, q, r, authority, actual_duration, success) ==
    LET system_state == sys[s]
        request_account == req[q]
        resource_account == res[r]
        err == complete_computation_require(system_state, request_account, resource_account, authority)
        usage == AddU64(resource_account.total_usage_time, actual_duration)
        count == SubU64(system_state.active_matches, 1)
    IN
    /\ UNCHANGED overflow_checks
    /\ IF err # "Ok"
       THEN /\ UNCHANGED <<sys, res, req>>
            /\ last' = Result("complete_computation", err)
       ELSE IF ~usage.ok \/ ~count.ok
       THEN /\ UNCHANGED <<sys, res, req>>
            /\ last' = Result("complete_computation", "Panic")
       ELSE /\ res' = [res EXCEPT
                          ![r].total_usage_time = usage.v,
                          ![r].reputation_score =
                              IF success
                              THEN saturating_add(resource_account.reputation_score, 1)
                              ELSE saturating_sub(resource_account.reputation_score, 1)]
            /\ req' = [req EXCEPT ![q].status = IF success THEN "Completed" ELSE "Cancelled"]
            /\ sys' = [sys EXCEPT ![s].active_matches = count.v]
            /\ last' = Result("complete_computation", "Ok")

complete_computation(s, q, r, authority, actual_duration, success) ==
    LET system_state == sys[s]
        request_account == req[q]
        resource_account == res[r]
        err == complete_computation_require(system_state, request_account, resource_account, authority)
        usage == AddU64(resource_account.total_usage_time, actual_duration)
        count == SubU64(system_state.active_matches, 1)
    IN
    /\ UNCHANGED overflow_checks
    /\ IF err # "Ok"
       THEN /\ UNCHANGED <<sys, res, req>>
            /\ last' = Result("complete_computation", err)
       ELSE IF ~usage.ok \/ ~count.ok
       THEN /\ UNCHANGED <<sys, res, req>>
            /\ last' = Result("complete_computation", "Panic")
       ELSE /\ res' = [res EXCEPT
                          ![r].total_usage_time = usage.v,
                          ![r].reputation_score =
                              IF success
                              THEN saturating_add(resource_account.reputation_score, 1)
                              ELSE saturating_sub(resource_account.reputation_score, 1)]
            /\ req' = [req EXCEPT ![q].status = IF success THEN "Completed" ELSE "Failed"]
            /\ sys' = [sys EXCEPT ![s].active_matches = count.v]
            /\ last' = Result("complete_computation", "Ok")

(***************************************************************************)
(* The instructions, with their accounts and arguments.                    *)
(***************************************************************************)
Initialize ==
    \E a \in DOMAIN sys \cup NewAddr(DOMAIN sys, SysAddr), authority \in Authorities :
        initialize(a, authority) /\ UNCHANGED native_vars

RegisterResource ==
    \E s \in DOMAIN sys, a \in NewAddr(DOMAIN res, ResAddr), provider \in Providers,
       args \in ResourceArgs :
        register_resource(s, a, provider, args[1], args[2], args[3])
          /\ UNCHANGED native_vars

SubmitComputationRequest ==
    \E s \in DOMAIN sys, a \in NewAddr(DOMAIN req, ReqAddr), requester \in Requesters,
       args \in RequestArgs :
        submit_computation_request(s, a, requester, args[1], args[2], args[3])
          /\ UNCHANGED native_vars

MatchResource ==
    \E s \in DOMAIN sys, q \in DOMAIN req, r \in DOMAIN res, matcher \in Pubkey,
       resource_id \in ResourceIdArgs :
        match_resource(s, q, r, matcher, resource_id) /\ UNCHANGED native_vars

CompleteComputation ==
    \E s \in DOMAIN sys, q \in DOMAIN req, r \in DOMAIN res, authority \in Pubkey,
       actual_duration \in DurationArgs, success \in BOOLEAN :
        complete_computation(s, q, r, authority, actual_duration, success)
          /\ UNCHANGED native_vars

Next ==
    \/ Initialize
    \/ RegisterResource
    \/ SubmitComputationRequest
    \/ MatchResource
    \/ CompleteComputation

Spec == Init /\ [][Next]_vars

(***************************************************************************)
(* The Anchor program on one SystemState and one resource, with more       *)
(* requests: the runs that complete several computations on a resource.    *)
(***************************************************************************)
InitializeOne ==
    /\ DOMAIN sys = {}
    /\ \E authority \in Authorities : initialize(1, authority)
    /\ UNCHANGED native_vars

RegisterResourceOne ==
    /\ DOMAIN res = {}
    /\ \E s \in DOMAIN sys, provider \in Providers :
         register_resource(s, 1, provider, 2, 2, 1)
    /\ UNCHANGED native_vars

SubmitComputationRequestMany ==
    /\ Cardinality(DOMAIN req) < MaxSatReq
    /\ \E s \in DOMAIN sys, requester \in Requesters, args \in RequestArgs :
         submit_computation_request(s, Cardinality(DOMAIN req) + 1, requester,
                                    args[1], args[2], args[3])
    /\ UNCHANGED native_vars

NextSaturation ==
    \/ InitializeOne
    \/ RegisterResourceOne
    \/ SubmitComputationRequestMany
    \/ MatchResource
    \/ CompleteComputation

SpecSaturation == Init /\ [][NextSaturation]_vars

(***************************************************************************)
(* cancel.  The source declares RequestStatus::Cancelled (line 244) and    *)
(* has no instruction that sets it; this is the cancel of the              *)
(* specification, as an instruction of the Anchor program: permitted from  *)
(* Pending or Matched, to the callers complete_computation admits (the     *)
(* requester, the provider of the matched resource, the authority); from   *)
(* Matched it decrements active_matches, with the specification's guard    *)
(* against underflow, and clears matched_resource.                         *)
(***************************************************************************)
MatchedProviders(request_account) ==
    {res[r].provider : r \in {o \in DOMAIN res :
         request_account.matched_resource = Some(res[o].resource_id)}}

\* Mutant: cancel that leaves matched_resource as it was.
cancel_keep_matched_resource(s, q, caller) ==
    LET system_state == sys[s]
        request_account == req[q]
    IN
    /\ UNCHANGED <<res, overflow_checks>>
    /\ IF ~(caller = request_account.requester
             \/ caller \in MatchedProviders(request_account)
             \/ caller = system_state.authority)
       THEN /\ UNCHANGED <<sys, req>>
            /\ last' = Result("cancel", "Unauthorized")
       ELSE IF request_account.status \notin {"Pending", "Matched"}
       THEN /\ UNCHANGED <<sys, req>>
            /\ last' = Result("cancel", "InvalidStateTransition")
       ELSE IF request_account.status = "Pending"
       THEN /\ req' = [req EXCEPT ![q].status = "Cancelled"]
            /\ UNCHANGED sys
            /\ last' = Result("cancel", "Ok")
       ELSE IF system_state.active_matches = 0
       THEN /\ UNCHANGED <<sys, req>>
            /\ last' = Result("cancel", "CounterUnderflow")
       ELSE /\ req' = [req EXCEPT ![q].status = "Cancelled"]
            /\ sys' = [sys EXCEPT ![s].active_matches = system_state.active_matches - 1]
            /\ last' = Result("cancel", "Ok")

cancel(s, q, caller) ==
    LET system_state == sys[s]
        request_account == req[q]
    IN
    /\ UNCHANGED <<res, overflow_checks>>
    /\ IF ~(caller = request_account.requester
             \/ caller \in MatchedProviders(request_account)
             \/ caller = system_state.authority)
       THEN /\ UNCHANGED <<sys, req>>
            /\ last' = Result("cancel", "Unauthorized")
       ELSE IF request_account.status \notin {"Pending", "Matched"}
       THEN /\ UNCHANGED <<sys, req>>
            /\ last' = Result("cancel", "InvalidStateTransition")
       ELSE IF request_account.status = "Pending"
       THEN /\ req' = [req EXCEPT ![q].status = "Cancelled"]
            /\ UNCHANGED sys
            /\ last' = Result("cancel", "Ok")
       ELSE IF system_state.active_matches = 0
       THEN /\ UNCHANGED <<sys, req>>
            /\ last' = Result("cancel", "CounterUnderflow")
       ELSE /\ req' = [req EXCEPT ![q].status = "Cancelled",
                                  ![q].matched_resource = None]
            /\ sys' = [sys EXCEPT ![s].active_matches = system_state.active_matches - 1]
            /\ last' = Result("cancel", "Ok")

Cancel ==
    \E s \in DOMAIN sys, q \in DOMAIN req, caller \in Pubkey :
        cancel(s, q, caller) /\ UNCHANGED native_vars

NextCancel ==
    \/ Initialize
    \/ RegisterResource
    \/ SubmitComputationRequest
    \/ MatchResource
    \/ CompleteComputation
    \/ Cancel

SpecCancel == Init /\ [][NextCancel]_vars

(***************************************************************************)
(* The native program's instructions.                                      *)
(***************************************************************************)
process_register_resource(a, provider, is_signer, resource_data) ==
    LET resource_account == native_res[a]
        data == [resource_data EXCEPT !.is_initialized = TRUE, !.provider = provider]
    IN  /\ UNCHANGED <<anchor_vars, native_req, token_mint, selection>>
        /\ IF resource_account.owner # "program_id"
           THEN /\ UNCHANGED native_res
                /\ last' = Result("process_register_resource", "IncorrectProgramId")
           ELSE IF ~is_signer
           THEN /\ UNCHANGED native_res
                /\ last' = Result("process_register_resource", "MissingRequiredSignature")
           ELSE /\ native_res' = [native_res EXCEPT ![a].data = Some(data)]
                /\ last' = Result("process_register_resource", "Ok")

\* process_submit_request is called at line 82 and not defined in the
\* source; this is the submit of the specification: a new record with
\* status Pending and no matched provider, in an account of the program
\* that holds none yet.
process_submit_request(a, requester, request_data) ==
    LET request_account == native_req[a]
        data == [request_data EXCEPT !.is_initialized = TRUE, !.requester = requester,
                                     !.status = "Pending", !.matched_provider = None]
    IN  /\ UNCHANGED <<anchor_vars, native_res, token_mint, selection>>
        /\ request_account.owner = "program_id"
        /\ request_account.data = None
        /\ native_req' = [native_req EXCEPT ![a].data = Some(data)]
        /\ last' = Result("process_submit_request", "Ok")

process_match_request(a, matching_engine, is_signer) ==
    LET request_account == native_req[a]
    IN  /\ UNCHANGED <<anchor_vars, native_res, token_mint, selection>>
        /\ IF request_account.owner # "program_id"
           THEN /\ UNCHANGED native_req
                /\ last' = Result("process_match_request", "IncorrectProgramId")
           ELSE IF ~is_signer
           THEN /\ UNCHANGED native_req
                /\ last' = Result("process_match_request", "MissingRequiredSignature")
           ELSE IF request_account.data = None
                     \/ request_account.data[1].status # "Pending"
           THEN /\ UNCHANGED native_req
                /\ last' = Result("process_match_request", "InvalidAccountData")
           ELSE /\ native_req' = [native_req EXCEPT ![a].data[1].status = "Matched"]
                /\ last' = Result("process_match_request", "Ok")

RegisterResourceNative ==
    \E a \in NativeResAddr, provider \in Providers, is_signer \in BOOLEAN,
       resource_data \in NativeResourceArgs :
        process_register_resource(a, provider, is_signer, resource_data)

SubmitRequestNative ==
    \E a \in NativeReqAddr, requester \in Requesters, request_data \in NativeRequestArgs :
        process_submit_request(a, requester, request_data)

MatchRequestNative ==
    \E a \in NativeReqAddr, matching_engine \in Pubkey, is_signer \in BOOLEAN :
        process_match_request(a, matching_engine, is_signer)

NextNative ==
    \/ RegisterResourceNative
    \/ SubmitRequestNative
    \/ MatchRequestNative

SpecNative == Init /\ [][NextNative]_vars

(***************************************************************************)
(* The token program's instructions.                                       *)
(***************************************************************************)
\* TokenInstruction::unpack
unpack(input) ==
    IF input = << >> THEN "InvalidInstructionData"
    ELSE IF input[1] = 0 THEN "InitializeMint"
    ELSE IF input[1] = 1 THEN "MintTo"
    ELSE IF input[1] = 2 THEN "Transfer"
    ELSE "InvalidInstructionData"

\* Mutant: InitializeMint without the check of the mint account's owner.
process_initialize_mint_any_owner(accounts) ==
    IF Len(accounts) < 3
    THEN /\ UNCHANGED token_mint
         /\ last' = Result("process_initialize_mint", "NotEnoughAccountKeys")
    ELSE LET mint_account == accounts[1]
             mint_authority == accounts[2]
             cal_token == [is_initialized |-> TRUE, supply |-> INITIAL_SUPPLY,
                           decimals |-> DECIMALS, mint_authority |-> mint_authority]
         IN  /\ token_mint' = [token_mint EXCEPT ![mint_account].data = Some(cal_token)]
             /\ last' = Result("process_initialize_mint", "Ok")

process_initialize_mint(accounts) ==
    IF Len(accounts) < 3
    THEN /\ UNCHANGED token_mint
         /\ last' = Result("process_initialize_mint", "NotEnoughAccountKeys")
    ELSE LET mint_account == accounts[1]
             mint_authority == accounts[2]
             cal_token == [is_initialized |-> TRUE, supply |-> INITIAL_SUPPLY,
                           decimals |-> DECIMALS, mint_authority |-> mint_authority]
         IN  IF token_mint[mint_account].owner # "program_id"
             THEN /\ UNCHANGED token_mint
                  /\ last' = Result("process_initialize_mint", "IncorrectProgramId")
             ELSE /\ token_mint' = [token_mint EXCEPT ![mint_account].data = Some(cal_token)]
                  /\ last' = Result("process_initialize_mint", "Ok")

process_instruction(accounts, instruction_data) ==
    /\ UNCHANGED <<anchor_vars, native_res, native_req, selection>>
    /\ unpack(instruction_data) \in {"InvalidInstructionData", "InitializeMint"}
    /\ IF unpack(instruction_data) = "InvalidInstructionData"
       THEN /\ UNCHANGED token_mint
            /\ last' = Result("process_instruction", "InvalidInstructionData")
       ELSE process_initialize_mint(accounts)

ProcessInstruction ==
    \E accounts \in TokenAccounts, instruction_data \in TokenInstructionData :
        process_instruction(accounts, instruction_data)

NextToken == ProcessInstruction

SpecToken == Init /\ [][NextToken]_vars

(***************************************************************************)
(* Candidate selection on a fixed request and pool.                        *)
(***************************************************************************)
InitSelect ==
    /\ sys = << >>
    /\ res = << >>
    /\ req = << >>
    /\ overflow_checks \in BOOLEAN
    /\ last = Result("none", "Ok")
    /\ native_res = [a \in NativeResAddr |-> NativeAccount(a)]
    /\ native_req = [a \in NativeReqAddr |-> NativeAccount(a)]
    /\ token_mint = [a \in MintAddr |-> NativeAccount(a)]
    /\ \E request \in SelectRequests, pool \in SelectPools :
         selection = [request |-> Some(request), pool |-> pool,
                      called |-> FALSE, result |-> None]

SelectBestCandidate ==
    /\ selection.request # None
    /\ selection' = [selection EXCEPT
                       !.called = TRUE,
                       !.result = selectBestCandidate(selection.request[1], selection.pool)]
    /\ last' = Result("selectBestCandidate", "Ok")
    /\ UNCHANGED <<anchor_vars, native_res, native_req, token_mint>>

NextSelect == SelectBestCandidate

SpecSelect == InitSelect /\ [][NextSelect]_vars

(***************************************************************************)
(* Properties.                                                             *)
(***************************************************************************)
Matched == {q \in DOMAIN req : req[q].status = "Matched"}

\* C1: gauge consistency. In every reachable state the active_matches of
\* SystemState equals the number of requests whose status is Matched.
C1_GaugeConsistency ==
    \A s \in DOMAIN sys : sys[s].active_matches = Cardinality(Matched)

\* C2: request exclusivity. Of the match_resource calls on one request that
\* satisfy every other precondition, the one that finds it Pending succeeds,
\* makes it Matched and adds one (u64 `+= 1`) to the active_matches of its
\* SystemState and to no other; every one that finds it no longer Pending
\* fails with RequestNotPending and changes nothing.
C2_RequestExclusivity ==
    [][last'.op = "match_resource" =>
       \A s \in DOMAIN sys, q \in DOMAIN req, r \in DOMAIN res,
          matcher \in Pubkey, rid \in ResourceIdArgs :
          match_resource(s, q, r, matcher, rid) =>
            LET others_hold ==
                    /\ (matcher = sys[s].authority \/ matcher = res[r].provider)
                    /\ res[r].is_active
                    /\ res[r].computation_power >= req[q].required_power
                    /\ res[r].available_memory >= req[q].required_memory
                    /\ res[r].price_per_unit <= req[q].max_price_per_unit
            IN  others_hold =>
                  IF req[q].status = "Pending"
                  THEN /\ last'.result = "Ok"
                       /\ req'[q].status = "Matched"
                       /\ sys'[s].active_matches
                            = (sys[s].active_matches + 1) % (U64_MAX + 1)
                       /\ \A t \in DOMAIN sys \ {s} : sys'[t] = sys[t]
                  ELSE /\ last'.result = "RequestNotPending"
                       /\ UNCHANGED <<sys, res, req>>
      ]_vars

\* A second match_resource on the only request, already Matched by the
\* first, has just failed with RequestNotPending.
C2_Witness ==
    /\ last = Result("match_resource", "RequestNotPending")
    /\ Cardinality(DOMAIN req) = 1
    /\ \A q \in DOMAIN req : req[q].status = "Matched"
    /\ \E s \in DOMAIN sys : sys[s].active_matches = 1

\* C3: resource exclusivity. No two distinct requests are both Matched with
\* the same matched_resource.
C3_ResourceExclusivity ==
    \A q1 \in Matched, q2 \in Matched :
        q1 # q2 => req[q1].matched_resource # req[q2].matched_resource

\* C4: match authorization. A match_resource call by a matcher that is
\* neither the authority of the SystemState nor the provider of the supplied
\* resource fails with UnauthorizedMatcher, whatever the request and the
\* resource; a call that succeeds is by one of the two.
C4_MatchAuthorization ==
    [][last'.op = "match_resource" =>
       \A s \in DOMAIN sys, q \in DOMAIN req, r \in DOMAIN res,
          matcher \in Pubkey, rid \in ResourceIdArgs :
          match_resource(s, q, r, matcher, rid) =>
            LET authorized == matcher = sys[s].authority \/ matcher = res[r].provider
            IN  /\ ~authorized => /\ last'.result = "UnauthorizedMatcher"
                                  /\ UNCHANGED <<sys, res, req>>
                /\ last'.result = "Ok" => authorized
                /\ last'.result = "UnauthorizedMatcher" => ~authorized
      ]_vars

\* An unauthorized match_resource has just failed on a request that is not
\* even Pending.
C4_Witness ==
    /\ last = Result("match_resource", "UnauthorizedMatcher")
    /\ Cardinality(DOMAIN req) = 1
    /\ \A q \in DOMAIN req : req[q].status # "Pending"

\* C5: the matched resource is the validated one. A match_resource call
\* that succeeds stores the id of the resource account that passed the
\* checks, and every registered resource with the stored id is active, has
\* the power and the memory the request requires and is within its price.
C5_MatchedIsValidated ==
    [][last'.op = "match_resource" =>
       \A s \in DOMAIN sys, q \in DOMAIN req, r \in DOMAIN res,
          matcher \in Pubkey, rid \in ResourceIdArgs :
          (match_resource(s, q, r, matcher, rid) /\ last'.result = "Ok") =>
            /\ req'[q].matched_resource = Some(res[r].resource_id)
            /\ \A x \in DOMAIN res :
                 Some(res[x].resource_id) = req'[q].matched_resource =>
                   /\ res[x].is_active
                   /\ res[x].computation_power >= req[q].required_power
                   /\ res[x].available_memory >= req[q].required_memory
                   /\ res[x].price_per_unit <= req[q].max_price_per_unit
      ]_vars

\* C6: single SystemState. There is at most one SystemState account; an
\* initialize never changes an existing one and no step changes an
\* authority; a match_resource or complete_computation that succeeds for a
\* caller who is not the provider (nor, for a completion, the requester) is
\* by the authority of that one SystemState.
C6_SingleSystemState ==
    [][/\ Cardinality(DOMAIN sys') <= 1
       /\ \A a \in DOMAIN sys :
            /\ a \in DOMAIN sys'
            /\ sys'[a].authority = sys[a].authority
            /\ last'.op = "initialize" => sys'[a] = sys[a]
       /\ (last'.op = "match_resource" /\ last'.result = "Ok") =>
            \A s \in DOMAIN sys, q \in DOMAIN req, r \in DOMAIN res,
               matcher \in Pubkey, rid \in ResourceIdArgs :
               match_resource(s, q, r, matcher, rid) =>
                 \/ matcher = res[r].provider
                 \/ \A a \in DOMAIN sys : matcher = sys[a].authority
       /\ (last'.op = "complete_computation" /\ last'.result = "Ok") =>
            \A s \in DOMAIN sys, q \in DOMAIN req, r \in DOMAIN res,
               caller \in Pubkey, d \in DurationArgs, ok \in BOOLEAN :
               complete_computation(s, q, r, caller, d, ok) =>
                 \/ caller \in {req[q].requester, res[r].provider}
                 \/ \A a \in DOMAIN sys : caller = sys[a].authority
      ]_vars

C8_LegalTransitions ==
    [][\A q \in DOMAIN req :
          /\ q \in DOMAIN req'
          /\ req'[q].status # req[q].status =>
               <<req[q].status, req'[q].status>> \in
                   {<<"Pending", "Matched">>, <<"Pending", "Cancelled">>,
                    <<"Matched", "InProgress">>, <<"Matched", "Completed">>,
                    <<"Matched", "Failed">>, <<"Matched", "Cancelled">>}
          /\ req[q].status \in {"Completed", "Failed", "Cancelled"} =>
               req'[q].status = req[q].status
      ]_vars

\* A match_resource or complete_computation has just been tried on the only
\* request, which is Completed or Failed, and the request is as it was.
C8_Witness ==
    /\ last.op \in {"match_resource", "complete_computation"}
    /\ last.result \in {"RequestNotPending", "RequestNotMatched"}
    /\ Cardinality(DOMAIN req) = 1
    /\ \A q \in DOMAIN req : req[q].status \in {"Completed", "Failed"}

\* C9: no partial mutation on failure. A match_resource or
\* complete_computation call that does not return Ok leaves every account
\* as it was.
C9_NoPartialMutation ==
    [][(last'.op \in {"match_resource", "complete_computation"} /\ last'.result # "Ok")
          => UNCHANGED <<sys, res, req>>
      ]_vars

\* A complete_computation has just failed after a request was matched and
\* a resource has a usage time already.
C9_Witness ==
    /\ last.op = "complete_computation"
    /\ last.result # "Ok"
    /\ Matched # {}
    /\ \E r \in DOMAIN res : res[r].total_usage_time > 0

\* C10: id monotonicity. The resource_ids assigned are pairwise distinct
\* and increase in the order of registration (accounts are created in the
\* order of their addresses), and so do the request_ids.
C10_IdMonotonicity ==
    /\ \A r1 \in DOMAIN res, r2 \in DOMAIN res :
         r1 < r2 => res[r1].resource_id < res[r2].resource_id
    /\ \A q1 \in DOMAIN req, q2 \in DOMAIN req :
         q1 < q2 => req[q1].request_id < req[q2].request_id

\* C11: effect of completion. A successful complete_computation on a
\* request matched to resource R adds actual_duration to R.total_usage_time,
\* changes R.reputation_score by +1 if success and by -1 otherwise, sets the
\* request's status to Completed if success and to Failed otherwise, and
\* decreases active_matches by exactly 1.
C11_CompletionEffect ==
    [][(last'.op = "complete_computation" /\ last'.result = "Ok") =>
       \A s \in DOMAIN sys, q \in DOMAIN req, r \in DOMAIN res,
          caller \in Pubkey, d \in DurationArgs, ok \in BOOLEAN :
          complete_computation(s, q, r, caller, d, ok) =>
            /\ res'[r].total_usage_time = res[r].total_usage_time + d
            /\ res'[r].reputation_score =
                 res[r].reputation_score + (IF ok THEN 1 ELSE -1)
            /\ req'[q].status = (IF ok THEN "Completed" ELSE "Failed")
            /\ sys'[s].active_matches = sys[s].active_matches - 1
      ]_vars

\* C12: precondition order of match. A match_resource call that violates
\* several preconditions returns the error of the first violated one in the
\* order UnauthorizedMatcher, RequestNotPending, ResourceNotActive,
\* InsufficientComputationPower, InsufficientMemory, PriceTooHigh, and the
\* call succeeds if and only if none is violated.
C12_PreconditionOrder ==
    [][last'.op = "match_resource" =>
       \A s \in DOMAIN sys, q \in DOMAIN req, r \in DOMAIN res,
          matcher \in Pubkey, resource_id \in ResourceIdArgs :
          match_resource(s, q, r, matcher, resource_id) =>
            LET v == <<matcher \notin {sys[s].authority, res[r].provider},
                       req[q].status # "Pending",
                       ~res[r].is_active,
                       res[r].computation_power < req[q].required_power,
                       res[r].available_memory < req[q].required_memory,
                       res[r].price_per_unit > req[q].max_price_per_unit>>
                e == <<"UnauthorizedMatcher", "RequestNotPending",
                       "ResourceNotActive", "InsufficientComputationPower",
                       "InsufficientMemory", "PriceTooHigh">>
            IN  /\ \A i \in 1..6 :
                     (v[i] /\ \A j \in 1..(i - 1) : ~v[j]) => last'.result = e[i]
                /\ last'.result = "Ok" <=> \A i \in 1..6 : ~v[i]
      ]_vars

\* A match_resource on a Pending request has just failed with
\* InsufficientComputationPower although the only resource also lacks the
\* memory and asks too high a price.
C12_Witness ==
    /\ last = Result("match_resource", "InsufficientComputationPower")
    /\ DOMAIN req # {}
    /\ Cardinality(DOMAIN res) = 1
    /\ \A q \in DOMAIN req, r \in DOMAIN res :
         /\ req[q].status = "Pending"
         /\ res[r].computation_power < req[q].required_power
         /\ res[r].available_memory < req[q].required_memory
         /\ res[r].price_per_unit > req[q].max_price_per_unit

C14_MatchedNamesResource ==
    [][/\ \A q \in DOMAIN req' :
            req'[q].status = "Matched" =>
              /\ req'[q].matched_resource # None
              /\ (q \in DOMAIN req /\ req[q].status = "Matched")
                   => req'[q].matched_resource = req[q].matched_resource
       /\ \A a \in NativeReqAddr :
            (native_req'[a].data # None /\ native_req'[a].data[1].status = "Matched") =>
              /\ native_req'[a].data[1].matched_provider # None
              /\ (native_req[a].data # None /\ native_req[a].data[1].status = "Matched")
                   => native_req'[a].data[1].matched_provider
                        = native_req[a].data[1].matched_provider
      ]_vars

\* C15: registration never overwrites. In both programs a register
\* operation creates a new record: a resource that is registered keeps its
\* record through every later registration, and its id and its provider
\* through every later step.
C15_RegistrationNeverOverwrites ==
    [][/\ \A r \in DOMAIN res :
            /\ r \in DOMAIN res'
            /\ res'[r].resource_id = res[r].resource_id
            /\ res'[r].provider = res[r].provider
            /\ last'.op = "register_resource" => res'[r] = res[r]
       /\ \A a \in NativeResAddr :
            native_res[a].data # None =>
              /\ native_res'[a].data # None
              /\ native_res'[a].data[1].provider = native_res[a].data[1].provider
              /\ last'.op = "process_register_resource"
                   => native_res'[a].data = native_res[a].data
      ]_vars

\* C16: reputation saturation. A resource's reputation_score stays within
\* the bounds of i64 whatever the sequence of completions; a successful
\* completion at the maximum leaves it at the maximum, a failed one at the
\* minimum leaves it at the minimum, and in both cases complete_computation
\* succeeds.
C16_ReputationSaturation ==
    [][/\ \A r \in DOMAIN res' :
            res'[r].reputation_score \in I64_MIN..I64_MAX
       /\ last'.op = "complete_computation" =>
            \A s \in DOMAIN sys, q \in DOMAIN req, r \in DOMAIN res,
               caller \in Pubkey, d \in DurationArgs, ok \in BOOLEAN :
               ( /\ complete_computation(s, q, r, caller, d, ok)
                 /\ complete_computation_require(sys[s], req[q], res[r], caller) = "Ok"
                 /\ res[r].total_usage_time + d <= U64_MAX
                 /\ sys[s].active_matches >= 1
                 /\ res[r].reputation_score = (IF ok THEN I64_MAX ELSE I64_MIN) )
               => /\ last'.result = "Ok"
                  /\ res'[r].reputation_score = res[r].reputation_score
                  /\ req'[q].status = (IF ok THEN "Completed" ELSE "Failed")
      ]_vars

\* Three computations on the resource have failed and its reputation_score
\* is at the minimum: the last failure found it there.
C16_Witness ==
    /\ last = Result("complete_computation", "Ok")
    /\ Cardinality(DOMAIN req) = 3
    /\ \A q \in DOMAIN req : req[q].status = "Failed"
    /\ \A r \in DOMAIN res : res[r].reputation_score = I64_MIN

\* C17: usage time is a saturating, non-decreasing total. A successful
\* complete_computation sets the resource's total_usage_time to
\* min(u64::MAX, old + actual_duration); a call that passes the checks with
\* old + actual_duration above u64::MAX still succeeds, with
\* total_usage_time = u64::MAX; and total_usage_time decreases in no step.
C17_UsageSaturating ==
    [][/\ \A r \in DOMAIN res :
            res'[r].total_usage_time >= res[r].total_usage_time
       /\ last'.op = "complete_computation" =>
            \A s \in DOMAIN sys, q \in DOMAIN req, r \in DOMAIN res,
               caller \in Pubkey, d \in DurationArgs, ok \in BOOLEAN :
               complete_computation(s, q, r, caller, d, ok) =>
                 LET total == res[r].total_usage_time + d
                 IN  /\ last'.result = "Ok" =>
                          res'[r].total_usage_time
                            = (IF total > U64_MAX THEN U64_MAX ELSE total)
                     /\ ( /\ complete_computation_require(sys[s], req[q], res[r], caller) = "Ok"
                          /\ sys[s].active_matches >= 1
                          /\ total > U64_MAX )
                        => /\ last'.result = "Ok"
                           /\ res'[r].total_usage_time = U64_MAX
      ]_vars

\* C18: no orphaned ledger updates. Every step that changes a resource's
\* reputation_score or total_usage_time is a successful
\* complete_computation that in the same step moves exactly one request
\* from Matched to Completed or Failed, the request whose matched_resource
\* is that resource; no other operation changes the two fields.
C18_NoOrphanedLedgerUpdates ==
    [][\A r \in DOMAIN res :
         ( \/ res'[r].reputation_score # res[r].reputation_score
           \/ res'[r].total_usage_time # res[r].total_usage_time )
         => /\ last' = Result("complete_computation", "Ok")
            /\ \E q \in DOMAIN req :
                 /\ req[q].status = "Matched"
                 /\ req'[q].status \in {"Completed", "Failed"}
                 /\ req[q].matched_resource = Some(res[r].resource_id)
                 /\ \A p \in DOMAIN req \ {q} : req'[p] = req[p]
            /\ \A o \in DOMAIN res \ {r} : res'[o] = res[o]
      ]_vars

\* A completion has just moved a Matched request to Completed and raised
\* the reputation and the usage time of its resource, while a second
\* resource stands untouched.
C18_Witness ==
    /\ last = Result("complete_computation", "Ok")
    /\ Cardinality(DOMAIN res) = 2
    /\ \E q \in DOMAIN req : req[q].status = "Completed"
    /\ \E r \in DOMAIN res :
         /\ res[r].reputation_score = 1
         /\ res[r].total_usage_time = 1
         /\ \A o \in DOMAIN res \ {r} :
              res[o].reputation_score = 0 /\ res[o].total_usage_time = 0

\* C19: reputation floor on matching. A match fails with ReputationTooLow
\* whenever the resource's reputation score is below the request's
\* min_reputation, so no request is moved to Matched with such a resource:
\* when every registered resource is below the minimum of a request, a
\* match of that request fails with ReputationTooLow and leaves it Pending.
C19_ReputationFloor ==
    [][last'.op = "process_match_request" =>
       \A a \in NativeReqAddr, matching_engine \in Pubkey, is_signer \in BOOLEAN :
         ( /\ process_match_request(a, matching_engine, is_signer)
           /\ native_req[a].owner = "program_id"
           /\ is_signer
           /\ native_req[a].data # None
           /\ native_req[a].data[1].status = "Pending"
           /\ \E b \in NativeResAddr : native_res[b].data # None
           /\ \A b \in NativeResAddr :
                native_res[b].data # None =>
                  native_res[b].data[1].reputation_score
                    < native_req[a].data[1].min_reputation )
         => /\ last'.result = "ReputationTooLow"
            /\ native_req'[a].data[1].status = "Pending"
      ]_vars

C21_MintInitialization ==
    [][\A a \in MintAddr, k \in Pubkey :
         process_instruction(<<a, k, "SysvarRent">>, <<0>>) =>
           IF token_mint[a].owner = "program_id"
           THEN /\ last'.result = "Ok"
                /\ token_mint'[a].data =
                     Some([is_initialized |-> TRUE, supply |-> 1000000000,
                           decimals |-> 9, mint_authority |-> k])
                /\ token_mint'[a].owner = token_mint[a].owner
                /\ \A b \in MintAddr \ {a} : token_mint'[b] = token_mint[b]
           ELSE /\ last'.result = "IncorrectProgramId"
                /\ token_mint' = token_mint
      ]_vars

\* An InitializeMint has just succeeded and two mints of the program hold
\* different mint authorities.
C21_Witness ==
    /\ last = Result("process_initialize_mint", "Ok")
    /\ \E a \in MintAddr, b \in MintAddr :
         /\ token_mint[a].data # None
         /\ token_mint[b].data # None
         /\ token_mint[a].data[1].mint_authority # token_mint[b].data[1].mint_authority

\* C22: candidate selection. selectBestCandidate returns None iff no
\* resource of the pool is active, dominates the required capabilities, is
\* priced at or below the max price and meets the minimum reputation;
\* otherwise it returns the id of the qualifying resource that is least in
\* the order: exact preferred-location match first when a preference is
\* set, then ascending price, then descending reputation, then ascending
\* id; and a repeated call on the same inputs returns the same id.
C22_CandidateSelection ==
    [][selection'.called =>
         LET request == selection.request[1]
             pool == selection.pool
             Qualifying == {i \in 1..Len(pool) :
                              /\ pool[i].is_active
                              /\ pool[i].computation_power >= request.required_power
                              /\ pool[i].available_memory >= request.required_memory
                              /\ pool[i].price_per_unit <= request.max_price_per_unit
                              /\ pool[i].reputation_score >= request.min_reputation}
             Key(i) == <<IF request.preferred_location = Some(pool[i].location)
                         THEN 0 ELSE 1,
                         pool[i].price_per_unit,
                         0 - pool[i].reputation_score,
                         pool[i].id>>
             Less(k, l) == \E n \in 1..4 :
                             /\ k[n] < l[n]
                             /\ \A m \in 1..(n - 1) : k[m] = l[m]
         IN  /\ selection'.request = selection.request
             /\ selection'.pool = selection.pool
             /\ selection'.result = None <=> Qualifying = {}
             /\ selection'.result # None =>
                  \E i \in Qualifying :
                     /\ selection'.result = Some(pool[i].id)
                     /\ \A j \in Qualifying \ {i} : Less(Key(i), Key(j))
             /\ selection.called => selection'.result = selection.result
      ]_vars

\* The selection has been made on the pool of two qualifying resources of
\* price 5, id 1 of reputation 2 and id 2 of reputation 5, for a request
\* with no location preference: the result is id 2.
C22_Witness ==
    /\ selection.called
    /\ selection.request[1].preferred_location = None
    /\ Len(selection.pool) = 2
    /\ selection.pool[1].id = 1 /\ selection.pool[2].id = 2
    /\ selection.pool[1].price_per_unit = 5 /\ selection.pool[2].price_per_unit = 5
    /\ selection.pool[1].reputation_score = 2 /\ selection.pool[2].reputation_score = 5
    /\ selection.result = Some(2)

\* C23: every match can be concluded. In every reachable state, for every
\* Matched request there is a registered resource whose resource_id is the
\* request's matched_resource, so that a complete_computation by the
\* requester with that resource passes its checks (and, with completions
\* taken fairly, the request reaches Completed or Failed).
C23_MatchCanBeConcluded ==
    \A q \in DOMAIN req :
       req[q].status = "Matched" =>
         \E r \in DOMAIN res :
            /\ req[q].matched_resource = Some(res[r].resource_id)
            /\ \A s \in DOMAIN sys :
                 complete_computation_require(sys[s], req[q], res[r],
                                              req[q].requester) = "Ok"

\* C24: frame of match. A successful match_resource changes only the
\* target request's status and matched_resource and the active_matches of
\* the SystemState (one u64 increment); every resource record, every other
\* request, every other field of the request, resource_count,
\* computation_request_count and authority are unchanged, and no account
\* is created.
C24_FrameOfMatch ==
    [][last' = Result("match_resource", "Ok") =>
       \A s \in DOMAIN sys, q \in DOMAIN req, r \in DOMAIN res,
          matcher \in Pubkey, resource_id \in ResourceIdArgs :
          match_resource(s, q, r, matcher, resource_id) =>
            /\ res' = res
            /\ DOMAIN req' = DOMAIN req
            /\ \A p \in DOMAIN req \ {q} : req'[p] = req[p]
            /\ req'[q] = [req[q] EXCEPT !.status = req'[q].status,
                                        !.matched_resource = req'[q].matched_resource]
            /\ DOMAIN sys' = DOMAIN sys
            /\ \A o \in DOMAIN sys \ {s} : sys'[o] = sys[o]
            /\ sys'[s] = [sys[s] EXCEPT
                            !.active_matches = (sys[s].active_matches + 1) % (U64_MAX + 1)]
            /\ UNCHANGED <<overflow_checks, native_vars>>
      ]_vars

\* A match has just succeeded on one of two requests and is counted; the
\* other request is still Pending.
C24_Witness ==
    /\ last = Result("match_resource", "Ok")
    /\ \E q \in DOMAIN req, p \in DOMAIN req :
         req[q].status = "Matched" /\ req[p].status = "Pending"
    /\ \E s \in DOMAIN sys : sys[s].active_matches = 1

\* C25: resources are never deactivated. In every reachable state every
\* registered resource has is_active = true, and no match_resource call
\* fails with ResourceNotActive.
C25_NeverDeactivated ==
    /\ \A r \in DOMAIN res : res[r].is_active
    /\ last.result # "ResourceNotActive"

\* A match_resource has just failed, for another reason, on resources that
\* have been matched and completed before.
C25_Witness ==
    /\ last.op = "match_resource"
    /\ last.result \notin {"Ok", "ResourceNotActive"}
    /\ \E r \in DOMAIN res : res[r].total_usage_time > 0
    /\ \A r \in DOMAIN res : res[r].is_active

\* C26: unreachable statuses. In every reachable state every request's
\* status is Pending, Matched, Completed or Failed, never Cancelled or
\* InProgress, in either program; and a Pending request stays Pending in
\* every step that is not a successful match of it.
C26_UnreachableStatuses ==
    [][/\ \A q \in DOMAIN req' :
            req'[q].status \in {"Pending", "Matched", "Completed", "Failed"}
       /\ \A a \in NativeReqAddr :
            native_req'[a].data # None =>
              native_req'[a].data[1].status \in {"Pending", "Matched", "Completed", "Failed"}
       /\ \A q \in DOMAIN req :
            (req[q].status = "Pending" /\ req'[q].status # "Pending") =>
              /\ last' = Result("match_resource", "Ok")
              /\ req'[q].status = "Matched"
       /\ \A a \in NativeReqAddr :
            ( /\ native_req[a].data # None
              /\ native_req[a].data[1].status = "Pending"
              /\ native_req'[a].data[1].status # "Pending" ) =>
              /\ last' = Result("process_match_request", "Ok")
              /\ native_req'[a].data[1].status = "Matched"
      ]_vars

\* A computation has just failed while another request, never matched, is
\* still Pending.
C26_Witness ==
    /\ last = Result("complete_computation", "Ok")
    /\ \E q \in DOMAIN req, p \in DOMAIN req :
         req[q].status = "Failed" /\ req[p].status = "Pending"

====
